---- MODULE Spec2Model ----
(***************************************************************************)
(* Model of the audio converter (src/main.py): the tool locator            *)
(* (ensure_ffmpeg), the command builder and launcher (start_convert), the  *)
(* process runner (FfmpegWorker.run) and the window's slots.               *)
(*                                                                         *)
(* Text is modelled as a sequence of tokens: "/" and "\\" are path         *)
(* separators, "." is a dot, every other token is a run of characters      *)
(* holding neither.  A command-line argument is one such sequence.         *)
(***************************************************************************)
EXTENDS Integers, Sequences, FiniteSets, TLC

VARIABLES
    platform,        \* sys.platform / os.name of the host: "win", "darwin", "linux"
    input_path,      \* RetroWindow.input_path
    output_dir,      \* RetroWindow.output_dir
    input_exists,    \* the file input_path names exists on disk
    outdir_exists,   \* os.path.isdir(output_dir)
    format_combo,    \* format_combo.currentText()
    quality_combo,   \* quality_combo.currentText()
    normalize_box,   \* normalize_box.isChecked()
    strip_subs_box,  \* strip_subs_box.isChecked()
    convert_enabled, \* convert_button.isEnabled()
    cancel_enabled,  \* cancel_button.isEnabled()
    sub_label,       \* sub_label.text()
    big_label,       \* big_label.text()
    log_view,        \* log_view: the blocks appended so far (kind; text of a worker line)
    workers,         \* live worker thread / FfmpegWorker / child process triples
    events,          \* queued signal deliveries posted to the interactive thread
    app,             \* "running", or "aborted" after an unhandled exception in a slot
    last_call        \* the most recent call of start_convert, cancel_convert or ensure_ffmpeg

vars == <<platform, input_path, output_dir, input_exists, outdir_exists,
          format_combo, quality_combo, normalize_box, strip_subs_box,
          convert_enabled, cancel_enabled, sub_label, big_label, log_view,
          workers, events, app, last_call>>

(***************************************************************************)
(* Bounds                                                                  *)
(***************************************************************************)
MaxRuns == 1
MaxLines == 2

(***************************************************************************)
(* Values                                                                  *)
(***************************************************************************)
None == <<>>

Platforms == {"win", "darwin", "linux"}

Formats == {"mp3", "opus", "wav", "flac", "m4a", "aac", "ogg", "wma"}

Qualities == {"High quality", "Balanced", "Smaller file"}

Home == <<"/", "home">>

AppBaseDir == <<"/", "app">>

WhichFfmpeg == <<"/", "usr", "/", "bin", "/", "ffmpeg">>

\* Files the file dialog can return (absolute paths of existing files).
InputPaths ==
    { <<"/", "x", "/", "song", ".", "mov">>,
      <<"/", "x", "/", "a", ".", "b", ".", "flac">>,
      <<"/", "x", "/", ".", "hidden">>,
      <<"/", "x", ".", "d", "/", "noext">> }

\* Folders the folder dialog can return.
OutputDirs == { <<"/", "out">>, <<"/">>, <<"/", "out", ".", "d">> }

\* Exit statuses of the child (negative: killed by a signal).
ExitCodes == {0, 1, -9}

SubIdle0 == "Pick a file. Pick a format. Convert it using ffmpeg."
SubIdle == "Pick a file. Pick a format. Convert it with ffmpeg."
SubBusy == "Converting..."
SubOk == "File converted."
SubFail == "Conversion NOT WORKING BHAI. Check the log for details."
BigNone == "No files Converted"

(***************************************************************************)
(* os.path on token sequences                                              *)
(***************************************************************************)
IsSep(plat, t) == t = "/" \/ (plat = "win" /\ t = "\\")

Sep(plat) == IF plat = "win" THEN "\\" ELSE "/"

\* Index of the last separator of p, 0 if none (str.rfind + 1).
LastSep(plat, p) ==
    LET S == {i \in 1..Len(p) : IsSep(plat, p[i])}
    IN  IF S = {} THEN 0 ELSE CHOOSE i \in S : \A j \in S : j <= i

\* Index of the last dot of p, 0 if none.
LastDot(p) ==
    LET S == {i \in 1..Len(p) : p[i] = "."}
    IN  IF S = {} THEN 0 ELSE CHOOSE i \in S : \A j \in S : j <= i

basename(plat, p) == SubSeq(p, LastSep(plat, p) + 1, Len(p))

\* genericpath._splitext: the extension starts at the last dot, unless that
\* dot is left of the last separator or only dots lie between them.
splitext_root(plat, p) ==
    LET sepIndex == LastSep(plat, p)
        dotIndex == LastDot(p)
    IN  IF dotIndex > sepIndex
           /\ \E k \in (sepIndex + 1)..(dotIndex - 1) : p[k] # "."
        THEN SubSeq(p, 1, dotIndex - 1)
        ELSE p

\* os.path.join(a, b) for a relative b.
join(plat, a, b) ==
    IF b # <<>> /\ IsSep(plat, b[1]) THEN b
    ELSE IF a = <<>> \/ IsSep(plat, a[Len(a)]) THEN a \o b
    ELSE a \o <<Sep(plat)>> \o b

(***************************************************************************)
(* Tool locator                                                            *)
(***************************************************************************)
ExeName(plat) == IF plat = "win" THEN <<"ffmpeg", ".", "exe">> ELSE <<"ffmpeg">>

\* _find_ffmpeg_binary, given what the two probes see: the bundled binary
\* first, then the search path.
find_ffmpeg_binary(plat, isfile_local, which) ==
    IF isfile_local THEN join(plat, AppBaseDir, ExeName(plat))
    ELSE IF which # None THEN which
    ELSE None

\* Every result a probe can have on some machine.
FindResults(plat) ==
    { find_ffmpeg_binary(plat, l, w) : l \in BOOLEAN, w \in {None, WhichFfmpeg} }

\* A message box is shown only when a parent window was passed.
Box(parent, b) == IF parent # "None" THEN <<b>> ELSE <<>>

\* The installer started and left to itself: the call returns at once.
install_ffmpeg_windows_detached(parent) ==
    LET asked == Box(parent, "question:FFmpeg not found:Yes")
    IN  (IF parent # "None"
         THEN {[ok |-> FALSE, trace |-> <<"question:FFmpeg not found:No">>]}
         ELSE {})
        \cup
        { [ok |-> TRUE, trace |-> asked \o <<"spawn:installer">>],
          [ok |-> FALSE,
           trace |-> asked \o <<"raise:installer">>
                     \o Box(parent, "critical:Installer error")] }

\* _install_ffmpeg_windows: the possible [ok, trace] results.  subprocess.call
\* starts the installer and returns when it has exited, or raises.
install_ffmpeg_windows(parent) ==
    LET asked == Box(parent, "question:FFmpeg not found:Yes")
    IN  (IF parent # "None"
         THEN {[ok |-> FALSE, trace |-> <<"question:FFmpeg not found:No">>]}
         ELSE {})
        \cup
        { [ok |-> TRUE, trace |-> asked \o <<"spawn:installer", "exit:installer">>],
          [ok |-> FALSE,
           trace |-> asked \o <<"raise:installer">>
                     \o Box(parent, "critical:Installer error")] }

\* _install_ffmpeg_macos: the possible [ok, trace] results.
install_ffmpeg_macos(parent) ==
    LET asked == Box(parent, "question:Install FFmpeg:Yes")
    IN  {[ok |-> FALSE, trace |-> Box(parent, "critical:Homebrew not found")]}
        \cup
        (IF parent # "None"
         THEN {[ok |-> FALSE, trace |-> <<"question:Install FFmpeg:No">>]}
         ELSE {})
        \cup
        { [ok |-> TRUE, trace |-> asked \o <<"spawn:brew", "exit:brew">>],
          [ok |-> FALSE,
           trace |-> asked \o <<"raise:brew">>
                     \o Box(parent, "critical:Install error")] }

\* The same without the fallback box after an attempt that reported failure.
AfterInstall_silent(parent, plat, i, fallback) ==
    LET tr == <<"probe">> \o i.trace
    IN  IF i.ok
        THEN { IF ff # None
               THEN [ret |-> ff, trace |-> tr \o <<"probe">>]
               ELSE [ret |-> None,
                     trace |-> tr \o <<"probe">> \o Box(parent, fallback)]
               : ff \in FindResults(plat) }
        ELSE {[ret |-> None, trace |-> tr]}

\* The part of ensure_ffmpeg after an install attempt i: re-probe when the
\* attempt reported success, else (or when the re-probe finds nothing) the
\* platform's fallback box and None.
AfterInstall(parent, plat, i, fallback) ==
    LET tr == <<"probe">> \o i.trace
        fail == {[ret |-> None, trace |-> tr \o Box(parent, fallback)]}
    IN  IF i.ok
        THEN { IF ff # None
               THEN [ret |-> ff, trace |-> tr \o <<"probe">>]
               ELSE [ret |-> None,
                     trace |-> tr \o <<"probe">> \o Box(parent, fallback)]
               : ff \in FindResults(plat) }
        ELSE fail

\* ensure_ffmpeg(parent): the possible [ret, trace] results on platform plat.
\* trace lists, in order, the probes made, the boxes shown with the user's
\* answer, and the installer processes started and waited for.
ensure_ffmpeg(parent, plat) ==
    { [ret |-> ff, trace |-> <<"probe">>] : ff \in FindResults(plat) \ {None} }
    \cup
    (CASE plat = "win" ->
            {[ret |-> None,
              trace |-> <<"probe">> \o Box(parent, "critical:FFmpeg Missing")]}
            \cup
            UNION { AfterInstall(parent, plat, i, "critical:FFmpeg Missing")
                    : i \in install_ffmpeg_windows(parent) }
       [] plat = "darwin" ->
            UNION { AfterInstall(parent, plat, i, "critical:FFmpeg not available")
                    : i \in install_ffmpeg_macos(parent) }
       [] OTHER ->
            {[ret |-> None,
              trace |-> <<"probe">> \o Box(parent, "critical:FFmpeg not available")]})

(***************************************************************************)
(* Command builder                                                         *)
(***************************************************************************)
\* The codec branch with a third tier of its own for m4a and aac.
codec_args_aac_small(ext, quality) ==
    CASE ext = "mp3" ->
            <<<<"-c:a">>, <<"libmp3lame">>, <<"-b:a">>,
              IF quality = "High quality" THEN <<"320k">>
              ELSE IF quality = "Smaller file" THEN <<"128k">>
              ELSE <<"192k">> >>
      [] ext = "opus" ->
            <<<<"-c:a">>, <<"libopus">>, <<"-b:a">>,
              IF quality = "High quality" THEN <<"160k">>
              ELSE IF quality = "Smaller file" THEN <<"64k">>
              ELSE <<"128k">> >>
      [] ext = "wav" -> <<<<"-c:a">>, <<"pcm_s16le">>>>
      [] ext = "flac" -> <<<<"-c:a">>, <<"flac">>>>
      [] ext \in {"m4a", "aac"} ->
            <<<<"-c:a">>, <<"aac">>, <<"-b:a">>,
              IF quality = "High quality" THEN <<"256k">>
              ELSE IF quality = "Smaller file" THEN <<"128k">>
              ELSE <<"192k">> >>
      [] ext = "ogg" ->
            <<<<"-c:a">>, <<"libvorbis">>, <<"-q:a">>,
              IF quality = "High quality" THEN <<"6">> ELSE <<"4">> >>
      [] ext = "wma" -> <<<<"-c:a">>, <<"wmav2">>, <<"-b:a">>, <<"192k">>>>
      [] OTHER -> <<>>

\* start_convert's codec branch: the arguments that follow -vn.
codec_args(ext, quality) ==
    CASE ext = "mp3" ->
            <<<<"-c:a">>, <<"libmp3lame">>, <<"-b:a">>,
              IF quality = "High quality" THEN <<"320k">>
              ELSE IF quality = "Smaller file" THEN <<"128k">>
              ELSE <<"192k">> >>
      [] ext = "opus" ->
            <<<<"-c:a">>, <<"libopus">>, <<"-b:a">>,
              IF quality = "High quality" THEN <<"160k">>
              ELSE IF quality = "Smaller file" THEN <<"64k">>
              ELSE <<"128k">> >>
      [] ext = "wav" -> <<<<"-c:a">>, <<"pcm_s16le">>>>
      [] ext = "flac" -> <<<<"-c:a">>, <<"flac">>>>
      [] ext \in {"m4a", "aac"} ->
            <<<<"-c:a">>, <<"aac">>, <<"-b:a">>,
              IF quality = "High quality" THEN <<"256k">> ELSE <<"192k">> >>
      [] ext = "ogg" ->
            <<<<"-c:a">>, <<"libvorbis">>, <<"-q:a">>,
              IF quality = "High quality" THEN <<"6">> ELSE <<"4">> >>
      [] ext = "wma" -> <<<<"-c:a">>, <<"wmav2">>, <<"-b:a">>, <<"192k">>>>
      [] OTHER -> <<>>

\* The filter arguments of start_convert.
filter_args(normalize, strip) ==
    (IF normalize THEN <<<<"-af">>, <<"loudnorm">>>> ELSE <<>>)
    \o (IF strip THEN <<<<"-sn">>>> ELSE <<>>)

\* out_path built from the whole base name, extension included.
out_path_keeps_ext(plat, in_path, out_dir, ext) ==
    join(plat, out_dir, basename(plat, in_path) \o <<".", ext>>)

\* out_path of start_convert.
out_path(plat, in_path, out_dir, ext) ==
    join(plat, out_dir, splitext_root(plat, basename(plat, in_path)) \o <<".", ext>>)

\* cmd of start_convert: a sequence of arguments.
build_command(ffmpeg_path, plat, in_path, out_dir, ext, quality, normalize, strip) ==
    <<ffmpeg_path, <<"-y">>, <<"-i">>, in_path, <<"-vn">>>>
    \o codec_args(ext, quality)
    \o filter_args(normalize, strip)
    \o <<out_path(plat, in_path, out_dir, ext)>>

(***************************************************************************)
(* The window                                                              *)
(***************************************************************************)
\* Inputs of the full specification: a few files, folders and option
\* settings the user can choose between.
UiInputPaths == { <<"/", "x", "/", "song", ".", "mov">> }

UiOutputDirs == { <<"/", "out">> }

UiOptions ==
    { <<"mp3", "Balanced", TRUE, FALSE>>,
      <<"wav", "High quality", FALSE, TRUE>>,
      <<"ogg", "Smaller file", TRUE, TRUE>> }

Entry(kind, text) == [kind |-> kind, text |-> text]

\* Conversions started so far: the "=== Starting conversion ===" blocks.
NumRuns(log) == Cardinality({i \in 1..Len(log) : log[i].kind = "START"})

\* Conversions whose outcome was shown so far: the closing blocks.
NumDone(log) == Cardinality({i \in 1..Len(log) : log[i].kind \in {"OK", "FAIL"}})

\* RetroWindow.append_log
append_log(log, kind, text) == Append(log, Entry(kind, text))

\* set_busy leaving the convert button enabled.
set_busy_leaves_convert(busy) ==
    [convert_enabled |-> TRUE,
     cancel_enabled |-> busy,
     sub_label |-> IF busy THEN SubBusy ELSE SubIdle]

\* RetroWindow.set_busy: the widget properties it sets.
set_busy(busy) ==
    [convert_enabled |-> ~busy,
     cancel_enabled |-> busy,
     sub_label |-> IF busy THEN SubBusy ELSE SubIdle]

\* str(n) and int(text) for the counter label; int raises ValueError
\* (here -1) on any other text.
NumText(n) == CASE n = 1 -> "1" [] n = 2 -> "2" [] n = 3 -> "3"
                [] n = 4 -> "4" [] OTHER -> "5"

ParseInt(text) ==
    IF \E n \in 1..5 : NumText(n) = text
    THEN CHOOSE n \in 1..5 : NumText(n) = text
    ELSE -1

\* A delivery that overtakes the ones already queued.
emit_overtaking(queue, ev) == <<ev>> \o queue

\* A signal emitted by the worker for a slot of the window is posted to the
\* interactive thread's event queue (queued connection).
emit(queue, ev) == Append(queue, ev)

LogEvent(w, line) == [sig |-> "log_signal", w |-> w, text |-> line, ok |-> FALSE]

FinishedEvent(w, ok) == [sig |-> "finished", w |-> w, text |-> "", ok |-> ok]

\* FfmpegWorker.__init__ plus the thread that will run it.
NewWorker(cmd, workdir) ==
    [pc |-> "started", command |-> cmd, workdir |-> workdir,
     child |-> "none", out |-> <<>>, readPos |-> 0, returncode |-> <<>>]

Call(fn, parent, ret, trace) ==
    [fn |-> fn, parent |-> parent, ret |-> ret, trace |-> trace]

UNCHANGED_request ==
    UNCHANGED <<platform, input_path, output_dir, input_exists, outdir_exists,
                format_combo, quality_combo, normalize_box, strip_subs_box>>

UNCHANGED_run ==
    UNCHANGED <<convert_enabled, cancel_enabled, sub_label, big_label,
                log_view, workers, events, app>>

Init ==
    /\ platform \in Platforms
    /\ input_path = <<>>
    /\ output_dir = Home
    /\ input_exists = FALSE
    /\ outdir_exists \in BOOLEAN
    /\ format_combo = "mp3"
    /\ quality_combo = "Balanced"
    /\ normalize_box = TRUE
    /\ strip_subs_box = FALSE
    /\ convert_enabled = TRUE
    /\ cancel_enabled = TRUE
    /\ sub_label = SubIdle0
    /\ big_label = BigNone
    /\ log_view = <<>>
    /\ workers = <<>>
    /\ events = <<>>
    /\ app = "running"
    /\ last_call = Call("none", "None", None, <<>>)

\* RetroWindow.pick_file with the dialog returning a path of Files other
\* than the current one, or "" when the user dismisses it.
pick_file(Files) ==
    /\ app = "running"
    /\ \E path \in (Files \ {input_path}) \cup {<<>>} :
          IF path # <<>>
          THEN /\ input_path' = path
               /\ input_exists' = TRUE
               /\ log_view' = append_log(log_view, "INPUT", <<>>)
          ELSE UNCHANGED <<input_path, input_exists, log_view>>
    /\ UNCHANGED <<platform, output_dir, outdir_exists, format_combo, quality_combo,
                   normalize_box, strip_subs_box, convert_enabled, cancel_enabled,
                   sub_label, big_label, workers, events, app, last_call>>

\* RetroWindow.pick_output_folder with the dialog returning a folder of Dirs
\* other than the current one, or "" when the user dismisses it.
pick_output_folder(Dirs) ==
    /\ app = "running"
    /\ \E folder \in (Dirs \ {output_dir}) \cup {<<>>} :
          IF folder # <<>>
          THEN /\ output_dir' = folder
               /\ outdir_exists' = TRUE
               /\ log_view' = append_log(log_view, "OUTPUT DIR", <<>>)
          ELSE UNCHANGED <<output_dir, outdir_exists, log_view>>
    /\ UNCHANGED <<platform, input_path, input_exists, format_combo, quality_combo,
                   normalize_box, strip_subs_box, convert_enabled, cancel_enabled,
                   sub_label, big_label, workers, events, app, last_call>>

\* The user changes the format, the quality or a check box.  Only
\* start_convert reads these, so the changes are taken between conversions.
set_options(Options) ==
    /\ app = "running"
    /\ workers = <<>>
    /\ \E o \in Options :
          /\ <<format_combo, quality_combo, normalize_box, strip_subs_box>> # o
          /\ format_combo' = o[1]
          /\ quality_combo' = o[2]
          /\ normalize_box' = o[3]
          /\ strip_subs_box' = o[4]
    /\ UNCHANGED <<platform, input_path, output_dir, input_exists, outdir_exists,
                   last_call>>
    /\ UNCHANGED_run

\* Outside the program: the input file or the output folder is removed or
\* put back.  Only start_convert looks, so the changes are taken between
\* conversions.
fs_change ==
    /\ app = "running"
    /\ workers = <<>>
    /\ \/ /\ input_path # <<>>
          /\ input_exists' = ~input_exists
          /\ UNCHANGED outdir_exists
       \/ /\ outdir_exists' = ~outdir_exists
          /\ UNCHANGED input_exists
    /\ UNCHANGED <<platform, input_path, output_dir, format_combo, quality_combo,
                   normalize_box, strip_subs_box, last_call>>
    /\ UNCHANGED_run

\* The first checks with the one on the output folder left out.
preflight_input_only(in_path, isdir) ==
    IF in_path = <<>> THEN "warning:No input" ELSE ""

\* The two checks start_convert makes first: the warning box it shows, or
\* "" when the request passes.
preflight(in_path, isdir) ==
    IF in_path = <<>> THEN "warning:No input"
    ELSE IF ~isdir THEN "warning:Invalid output"
    ELSE ""

\* The check on the locator's result left out.
tool_missing_ignored(ffmpeg_path) == FALSE

\* "if not ffmpeg_path" of start_convert.
tool_missing(ffmpeg_path) == ffmpeg_path = None

\* RetroWindow.start_convert, run by a click on the enabled convert button.
start_convert ==
    /\ app = "running"
    /\ convert_enabled
    /\ NumDone(log_view) < MaxRuns
    /\ UNCHANGED_request
    /\ UNCHANGED <<big_label, events, app>>
    /\ IF preflight(input_path, outdir_exists) # ""
       THEN /\ last_call' = Call("start_convert", "self", None,
                                 <<preflight(input_path, outdir_exists)>>)
            /\ UNCHANGED <<convert_enabled, cancel_enabled, sub_label, log_view, workers>>
       ELSE \E e \in ensure_ffmpeg("self", platform) :
            /\ last_call' = Call("start_convert", "self", e.ret, e.trace)
            /\ IF tool_missing(e.ret)
               THEN UNCHANGED <<convert_enabled, cancel_enabled, sub_label,
                                log_view, workers>>
               ELSE LET cmd == build_command(e.ret, platform, input_path, output_dir,
                                             format_combo, quality_combo,
                                             normalize_box, strip_subs_box)
                        id == NumRuns(log_view) + 1
                    IN  /\ log_view' = append_log(append_log(log_view, "START", <<>>),
                                                  "CMD", <<>>)
                        /\ convert_enabled' = set_busy(TRUE).convert_enabled
                        /\ cancel_enabled' = set_busy(TRUE).cancel_enabled
                        /\ sub_label' = set_busy(TRUE).sub_label
                        /\ workers' = (id :> NewWorker(cmd, output_dir)) @@ workers

\* RetroWindow.cancel_convert
cancel_convert ==
    /\ app = "running"
    /\ cancel_enabled
    /\ last_call' = Call("cancel_convert", "self", None, <<"information:Cancel">>)
    /\ UNCHANGED_request
    /\ UNCHANGED_run

\* ensure_ffmpeg called on its own, with or without a parent window.
ensure_ffmpeg_call ==
    /\ app = "running"
    /\ \E parent \in {"None", "self"} :
          \E e \in ensure_ffmpeg(parent, platform) :
             last_call' = Call("ensure_ffmpeg", parent, e.ret, e.trace)
    /\ UNCHANGED_request
    /\ UNCHANGED_run

(***************************************************************************)
(* The worker thread: FfmpegWorker.run and its child process               *)
(***************************************************************************)
\* How subprocess.Popen can end: the child is started, or the call raises.
PopenResults == {"ok", "FileNotFoundError", "PermissionError", "OSError"}

\* What an exception leaving the slot does to the application: the binding
\* either prints it and carries on or aborts the process.
UnhandledResults == {"running", "aborted"}

UNCHANGED_window ==
    UNCHANGED <<convert_enabled, cancel_enabled, sub_label, big_label,
                log_view, last_call>>

\* run, up to and including the try block around Popen.
run_popen(w) ==
    /\ app = "running"
    /\ workers[w].pc = "started"
    /\ \E r \in PopenResults :
          CASE r = "ok" ->
                 /\ workers' = [workers EXCEPT ![w].pc = "reading",
                                               ![w].child = "running"]
                 /\ UNCHANGED <<events, app>>
            [] r = "FileNotFoundError" ->
                 /\ events' = emit(emit(events, LogEvent(w, "ERROR")),
                                   FinishedEvent(w, FALSE))
                 /\ workers' = [workers EXCEPT ![w].pc = "done"]
                 /\ UNCHANGED app
            [] OTHER ->
                 /\ workers' = [workers EXCEPT ![w].pc = "raised"]
                 /\ app' \in UnhandledResults
                 /\ UNCHANGED events
    /\ UNCHANGED_request
    /\ UNCHANGED_window

\* The child writes one more line on its combined output; the line's text
\* is its ordinal, so that the order of the lines can be told.
child_write(w) ==
    /\ app = "running"
    /\ workers[w].child = "running"
    /\ Len(workers[w].out) < MaxLines
    /\ workers' = [workers EXCEPT ![w].out = Append(@, NumText(Len(@) + 1))]
    /\ UNCHANGED <<events, app>>
    /\ UNCHANGED_request
    /\ UNCHANGED_window

\* The child closes its output and keeps running.
child_close(w) ==
    /\ app = "running"
    /\ workers[w].child = "running"
    /\ workers' = [workers EXCEPT ![w].child = "closed"]
    /\ UNCHANGED <<events, app>>
    /\ UNCHANGED_request
    /\ UNCHANGED_window

\* The child terminates with some exit status.
child_exit(w) ==
    /\ app = "running"
    /\ workers[w].child \in {"running", "closed"}
    /\ \E code \in ExitCodes :
          workers' = [workers EXCEPT ![w].child = "exited",
                                     ![w].returncode = <<code>>]
    /\ UNCHANGED <<events, app>>
    /\ UNCHANGED_request
    /\ UNCHANGED_window

\* One turn of "for line in process.stdout": the next unread line is emitted.
run_read_line(w) ==
    /\ app = "running"
    /\ workers[w].pc = "reading"
    /\ workers[w].readPos < Len(workers[w].out)
    /\ events' = emit(events, LogEvent(w, workers[w].out[workers[w].readPos + 1]))
    /\ workers' = [workers EXCEPT ![w].readPos = @ + 1]
    /\ UNCHANGED app
    /\ UNCHANGED_request
    /\ UNCHANGED_window

\* The loop ends when everything written was read and the output is closed.
run_eof(w) ==
    /\ app = "running"
    /\ workers[w].pc = "reading"
    /\ workers[w].readPos = Len(workers[w].out)
    /\ workers[w].child \in {"closed", "exited"}
    /\ workers' = [workers EXCEPT ![w].pc = "waiting"]
    /\ UNCHANGED <<events, app>>
    /\ UNCHANGED_request
    /\ UNCHANGED_window

\* A test that takes every status the child chose itself for success.
outcome_not_killed(returncode) == returncode[1] >= 0

\* "process.returncode == 0"
outcome(returncode) == returncode = <<0>>

\* process.wait() returns once the child has terminated; finished is emitted.
run_wait(w) ==
    /\ app = "running"
    /\ workers[w].pc = "waiting"
    /\ workers[w].child = "exited"
    /\ events' = emit(events, FinishedEvent(w, outcome(workers[w].returncode)))
    /\ workers' = [workers EXCEPT ![w].pc = "done"]
    /\ UNCHANGED app
    /\ UNCHANGED_request
    /\ UNCHANGED_window

(***************************************************************************)
(* The interactive thread's event loop                                     *)
(***************************************************************************)
\* RetroWindow.on_convert_finished: the widget properties it leaves.
on_convert_finished(ok) ==
    [convert_enabled |-> set_busy(FALSE).convert_enabled,
     cancel_enabled |-> set_busy(FALSE).cancel_enabled,
     sub_label |-> IF ok THEN SubOk ELSE SubFail,
     big_label |-> IF ok
                   THEN (IF ParseInt(big_label) = -1
                         THEN NumText(1)
                         ELSE NumText(ParseInt(big_label) + 1))
                   ELSE big_label,
     log_view |-> append_log(log_view, IF ok THEN "OK" ELSE "FAIL", <<>>)]

\* The oldest queued delivery runs its slot: append_log for a log line;
\* on_convert_finished, then the thread's quit and the deleteLater calls,
\* for finished.
deliver_event ==
    /\ app = "running"
    /\ events # <<>>
    /\ LET ev == Head(events)
       IN  IF ev.sig = "log_signal"
           THEN /\ log_view' = append_log(log_view, "LINE", <<ev.text>>)
                /\ UNCHANGED <<convert_enabled, cancel_enabled, sub_label,
                               big_label, workers>>
           ELSE LET r == on_convert_finished(ev.ok)
                IN  /\ convert_enabled' = r.convert_enabled
                    /\ cancel_enabled' = r.cancel_enabled
                    /\ sub_label' = r.sub_label
                    /\ big_label' = r.big_label
                    /\ log_view' = r.log_view
                    /\ workers' = [v \in DOMAIN workers \ {ev.w} |-> workers[v]]
    /\ events' = Tail(events)
    /\ UNCHANGED <<app, last_call>>
    /\ UNCHANGED_request

(***************************************************************************)
(* Specifications                                                          *)
(***************************************************************************)
WorkerStep ==
    \E w \in DOMAIN workers :
       \/ run_popen(w)
       \/ child_write(w)
       \/ child_close(w)
       \/ child_exit(w)
       \/ run_read_line(w)
       \/ run_eof(w)
       \/ run_wait(w)

Next ==
    \/ pick_file(UiInputPaths)
    \/ pick_output_folder(UiOutputDirs)
    \/ set_options(UiOptions)
    \/ fs_change
    \/ start_convert
    \/ cancel_convert
    \/ deliver_event
    \/ WorkerStep

\* The application as the user drives it.
Spec == Init /\ [][Next]_vars

\* The same, with every thread and the child process making progress.
FairSpec ==
    /\ Spec
    /\ WF_vars(deliver_event)
    /\ WF_vars(WorkerStep)

\* A window in which a request has been set up: any file, folder, format,
\* quality and check boxes.
BuildInit ==
    /\ platform \in Platforms
    /\ input_path \in InputPaths \cup {<<>>}
    /\ output_dir \in OutputDirs \cup {Home}
    /\ input_exists \in (IF input_path = <<>> THEN {FALSE} ELSE BOOLEAN)
    /\ outdir_exists \in BOOLEAN
    /\ format_combo \in Formats
    /\ quality_combo \in Qualities
    /\ normalize_box \in BOOLEAN
    /\ strip_subs_box \in BOOLEAN
    /\ convert_enabled = TRUE
    /\ cancel_enabled = TRUE
    /\ sub_label = SubIdle0
    /\ big_label = BigNone
    /\ log_view = (IF input_path = <<>> THEN <<>> ELSE <<Entry("INPUT", <<>>)>>)
                  \o (IF output_dir = Home THEN <<>> ELSE <<Entry("OUTPUT DIR", <<>>)>>)
    /\ workers = <<>>
    /\ events = <<>>
    /\ app = "running"
    /\ last_call = Call("none", "None", None, <<>>)

\* The command builder: start_convert applied to every request.
BuildSpec == BuildInit /\ [][start_convert]_vars

LocatorNext ==
    \/ pick_file(UiInputPaths)
    \/ pick_output_folder(UiOutputDirs)
    \/ set_options(UiOptions)
    \/ fs_change
    \/ ensure_ffmpeg_call

\* The tool locator, called with or without a parent window while a request
\* is being set up.
LocatorSpec == Init /\ [][LocatorNext]_vars

(***************************************************************************)
(* Properties                                                              *)
(***************************************************************************)
\* The texts of the worker lines shown in the log since the last
\* "=== Starting conversion ===" block.
RECURSIVE LinesSinceStart(_)
LinesSinceStart(log) ==
    IF log = <<>> \/ log[Len(log)].kind = "START" THEN <<>>
    ELSE LET rest == LinesSinceStart(SubSeq(log, 1, Len(log) - 1))
         IN  IF log[Len(log)].kind = "LINE"
             THEN rest \o log[Len(log)].text
             ELSE rest

\* The texts of worker w's log lines still queued, oldest first.
RECURSIVE QueuedLines(_, _)
QueuedLines(queue, w) ==
    IF queue = <<>> THEN <<>>
    ELSE IF Head(queue).sig = "log_signal" /\ Head(queue).w = w
         THEN <<Head(queue).text>> \o QueuedLines(Tail(queue), w)
         ELSE QueuedLines(Tail(queue), w)

\* C1: single flight.  From the launch of a worker until on_convert_finished
\* has run for it there is no second worker thread or child process: at most
\* one worker/process pair exists at any time, and while one exists the
\* convert button is disabled.
C1_SingleFlight ==
    /\ Cardinality(DOMAIN workers) <= 1
    /\ workers # <<>> => ~convert_enabled

\* C1 witness: a conversion is under way, its child running, the convert
\* button disabled.
C1_Witness ==
    \E w \in DOMAIN workers :
       /\ workers[w].child = "running"
       /\ workers[w].out # <<>>
       /\ ~convert_enabled

\* C2: the interactive thread gets the worker's notifications in emission
\* order.  The lines shown followed by the lines still queued are exactly the
\* lines the worker has read, in the order the child wrote them; a queued
\* finished notification is behind every log line, is emitted only after the
\* child has terminated and all its lines were read; and no notification
\* outlives the delivery of finished.
C2_OrderedDelivery ==
    /\ \A i \in 1..Len(events) : events[i].w \in DOMAIN workers
    /\ \A w \in DOMAIN workers :
          workers[w].child # "none" =>
             /\ LinesSinceStart(log_view) \o QueuedLines(events, w)
                   = SubSeq(workers[w].out, 1, workers[w].readPos)
             /\ \A i \in 1..Len(events) :
                   (events[i].sig = "finished" /\ events[i].w = w) =>
                      /\ i = Len(events)
                      /\ workers[w].child = "exited"
                      /\ workers[w].readPos = Len(workers[w].out)

\* C2 witness: two lines were written, the first is shown, the second is
\* queued and finished is queued behind it.
C2_Witness ==
    \E w \in DOMAIN workers :
       /\ Len(workers[w].out) >= 2
       /\ Len(LinesSinceStart(log_view)) = 1
       /\ Len(events) >= 2
       /\ events[Len(events)].sig = "finished"

\* A worker's run has just ended at its Popen call, without a child.
LaunchFailed(w) ==
    /\ w \in DOMAIN workers
    /\ w \in DOMAIN workers'
    /\ workers[w].pc = "started"
    /\ workers'[w].pc \notin {"started", "reading"}

\* C3: whenever the executable cannot be started, whatever the reason, run
\* emits exactly one diagnostic log line, then finished(False), and no
\* exception leaves run.
C3_LaunchFailureReported ==
    [][\A w \in DOMAIN workers :
          LaunchFailed(w) =>
             /\ workers'[w].pc = "done"
             /\ app' = "running"
             /\ events' = events \o <<LogEvent(w, "ERROR"), FinishedEvent(w, FALSE)>>]_vars

\* A started conversion has failed: its launch failed, or its child ended
\* with a non-zero status.
ConversionFailed ==
    \E w \in DOMAIN workers :
       \/ workers[w].pc = "raised"
       \/ workers[w].pc = "done" /\ workers[w].child = "none"
       \/ workers[w].child = "exited" /\ workers[w].returncode # <<0>>

\* C4: after any failure of a started conversion the convert button is
\* eventually enabled again, with the failure status shown.
C4_FailureReenables ==
    ConversionFailed ~> (convert_enabled /\ sub_label = SubFail /\ app = "running")

\* The locator was called by the last call, and returned None.
LocatorFailed ==
    /\ last_call.fn \in {"start_convert", "ensure_ffmpeg"}
    /\ last_call.trace # <<>>
    /\ last_call.trace[1] = "probe"
    /\ last_call.ret = None

\* C5: when ensure_ffmpeg resolves no executable, start_convert returns
\* without building a worker: no worker exists, nothing is queued, and the
\* convert button stays enabled.
C5_NoToolNoLaunch ==
    (LocatorFailed /\ last_call.fn = "start_convert") =>
       /\ workers = <<>>
       /\ events = <<>>
       /\ convert_enabled
       /\ sub_label # SubBusy

\* C5 witness: start_convert returned after the user declined the install.
C5_Witness ==
    /\ LocatorFailed
    /\ last_call.fn = "start_convert"
    /\ \E i \in 1..Len(last_call.trace) :
          last_call.trace[i] \in {"question:FFmpeg not found:No",
                                  "question:Install FFmpeg:No"}

\* The boxes that explain why no executable was found.
Explanations ==
    {"critical:FFmpeg Missing", "critical:FFmpeg not available"}

\* The last thing the call did was to show an explanation.
Explained == last_call.trace[Len(last_call.trace)] \in Explanations

\* C6 as claimed: every call of ensure_ffmpeg that returns None, whatever its
\* parent argument, shows an explanation before it returns.
C6_NeverSilent == LocatorFailed => Explained

\* C6: every call of ensure_ffmpeg with a parent window that returns None
\* shows an explanation before it returns, on every platform: install
\* declined, unavailable, raised, or completed without producing a binary.
C6_NeverSilentWithParent ==
    (LocatorFailed /\ last_call.parent # "None") => Explained

\* C6 witness: called with a parent window, the install raised, and None was
\* returned.
C6_Witness ==
    /\ LocatorFailed
    /\ last_call.fn = "ensure_ffmpeg"
    /\ last_call.parent = "self"
    /\ \E i \in 1..Len(last_call.trace) :
          last_call.trace[i] \in {"raise:installer", "raise:brew"}

\* start_convert rejected the request: one warning box, no locator call, no
\* worker, busy state as before.
Rejected ==
    /\ last_call'.trace \in {<<"warning:No input">>, <<"warning:Invalid output">>}
    /\ workers' = workers
    /\ events' = events
    /\ convert_enabled' = convert_enabled
    /\ cancel_enabled' = cancel_enabled
    /\ sub_label' = sub_label

\* C7 as claimed: a conversion is only started for a request whose input
\* path names an existing file and whose output folder exists; every other
\* request is rejected with a warning before any process is launched.
C7_ValidatedRequest ==
    [][start_convert =>
          IF input_path # <<>> /\ input_exists /\ outdir_exists
          THEN ~Rejected
          ELSE Rejected]_vars

\* C7: a conversion is only started for a request with a chosen input path
\* and an existing output folder; a request with no file chosen or with the
\* output folder missing is rejected with a warning before any process is
\* launched, leaving the busy state unchanged.  (Whether the chosen file
\* still exists is not looked at.)
C7_ChosenInputExistingOutput ==
    [][start_convert =>
          IF input_path # <<>> /\ outdir_exists
          THEN ~Rejected
          ELSE Rejected]_vars

\* C7 witness: start_convert has rejected a request whose file was chosen
\* and whose output folder is missing.
C7_Witness ==
    /\ last_call.fn = "start_convert"
    /\ last_call.trace = <<"warning:Invalid output">>
    /\ input_path # <<>>
    /\ ~outdir_exists
    /\ workers = <<>>

\* C8: for a run whose child was started, finished carries success exactly
\* when the child's exit status is zero, however many lines were streamed.
C8_OutcomeIsExitStatus ==
    \A i \in 1..Len(events) :
       (/\ events[i].sig = "finished"
        /\ events[i].w \in DOMAIN workers
        /\ workers[events[i].w].child # "none")
       => (events[i].ok <=> workers[events[i].w].returncode = <<0>>)

\* C8 witness: a child that wrote lines and ended with a non-zero status has
\* its failure queued.
C8_Witness ==
    \E i \in 1..Len(events) :
       /\ events[i].sig = "finished"
       /\ ~events[i].ok
       /\ workers[events[i].w].out # <<>>
       /\ workers[events[i].w].returncode = <<1>>

\* The mapping table: the codec of each format, and its rate option with the
\* values for High quality, Balanced and Smaller file (none for wav, flac).
TableCodec(fmt) ==
    CASE fmt = "mp3" -> "libmp3lame"
      [] fmt = "opus" -> "libopus"
      [] fmt = "wav" -> "pcm_s16le"
      [] fmt = "flac" -> "flac"
      [] fmt \in {"m4a", "aac"} -> "aac"
      [] fmt = "ogg" -> "libvorbis"
      [] fmt = "wma" -> "wmav2"

TableRate(fmt) ==
    CASE fmt = "mp3" -> <<"-b:a", "320k", "192k", "128k">>
      [] fmt = "opus" -> <<"-b:a", "160k", "128k", "64k">>
      [] fmt \in {"wav", "flac"} -> <<>>
      [] fmt \in {"m4a", "aac"} -> <<"-b:a", "256k", "192k", "192k">>
      [] fmt = "ogg" -> <<"-q:a", "6", "4", "4">>
      [] fmt = "wma" -> <<"-b:a", "192k", "192k", "192k">>

TableColumn(quality) ==
    CASE quality = "High quality" -> 2
      [] quality = "Balanced" -> 3
      [] quality = "Smaller file" -> 4

TableArgs(fmt, quality) ==
    <<<<"-c:a">>, <<TableCodec(fmt)>>>>
    \o (IF TableRate(fmt) = <<>> THEN <<>>
        ELSE <<<<TableRate(fmt)[1]>>, <<TableRate(fmt)[TableColumn(quality)]>>>>)

NotFilterWord(arg) == arg \notin {<<"-af">>, <<"loudnorm">>, <<"-sn">>}

\* The arguments of cmd between -vn and the output path, filters left out.
CodecPart(cmd) == SelectSeq(SubSeq(cmd, 6, Len(cmd) - 1), NotFilterWord)

\* C9: for each of the eight formats and each of the three quality presets,
\* the codec and bitrate/quality arguments of the built command are exactly
\* those of the mapping table.
C9_CodecTable ==
    \A w \in DOMAIN workers :
       CodecPart(workers[w].command) = TableArgs(format_combo, quality_combo)

\* C9 witness: a command was built for opus / Smaller file, with 64k.
C9_Witness ==
    \E w \in DOMAIN workers :
       /\ format_combo = "opus"
       /\ quality_combo = "Smaller file"
       /\ workers[w].command[6] = <<"-c:a">>
       /\ workers[w].command[9] = <<"64k">>

Occurrences(cmd, arg) == Cardinality({i \in 1..Len(cmd) : cmd[i] = arg})

\* The names of a path: what lies between its separators.
RECURSIVE PathNames(_, _)
PathNames(plat, p) ==
    IF p = <<>> THEN <<>>
    ELSE IF IsSep(plat, p[1]) THEN PathNames(plat, Tail(p))
    ELSE LET S == {i \in 1..Len(p) : IsSep(plat, p[i])}
             n == IF S = {} THEN Len(p) + 1 ELSE CHOOSE i \in S : \A j \in S : i <= j
         IN  <<SubSeq(p, 1, n - 1)>> \o PathNames(plat, SubSeq(p, n, Len(p)))

\* Two spellings of one path.
SamePath(plat, p, q) ==
    /\ PathNames(plat, p) = PathNames(plat, q)
    /\ (p # <<>> /\ IsSep(plat, p[1])) <=> (q # <<>> /\ IsSep(plat, q[1]))

\* The last name of a path without its extension: what precedes the last dot,
\* when something other than dots precedes it.
Stem(plat, p) ==
    LET names == PathNames(plat, p)
        name == names[Len(names)]
        D == {d \in 2..Len(name) :
                /\ name[d] = "."
                /\ \A j \in (d + 1)..Len(name) : name[j] # "."
                /\ \E j \in 1..(d - 1) : name[j] # "."}
    IN  IF D = {} THEN name ELSE SubSeq(name, 1, (CHOOSE d \in D : TRUE) - 1)

\* C10: the built argument list begins with [tool_path, -y, -i, input_path,
\* -vn]; its final element is the path
\* {output_directory}/{input base name without extension}.{format}; it holds
\* "-af loudnorm" exactly once when normalize-loudness is set and not at all
\* otherwise, and -sn exactly when strip-subtitles is set.
C10_CommandShape ==
    \A w \in DOMAIN workers :
       LET cmd == workers[w].command
       IN  /\ Len(cmd) >= 8
           /\ SubSeq(cmd, 1, 5)
                 = <<last_call.ret, <<"-y">>, <<"-i">>, input_path, <<"-vn">>>>
           /\ last_call.ret # None
           /\ SamePath(platform, cmd[Len(cmd)],
                       output_dir \o <<"/">> \o Stem(platform, input_path)
                                  \o <<".", format_combo>>)
           /\ Occurrences(cmd, <<"-af">>) = (IF normalize_box THEN 1 ELSE 0)
           /\ Occurrences(cmd, <<"loudnorm">>) = (IF normalize_box THEN 1 ELSE 0)
           /\ \A i \in 1..Len(cmd) :
                 cmd[i] = <<"-af">> => (i < Len(cmd) /\ cmd[i + 1] = <<"loudnorm">>)
           /\ Occurrences(cmd, <<"-sn">>) = (IF strip_subs_box THEN 1 ELSE 0)

\* C10 witness: a command built with both filters for a file whose name has
\* two dots, written to the root folder.
C10_Witness ==
    \E w \in DOMAIN workers :
       /\ normalize_box
       /\ strip_subs_box
       /\ output_dir = <<"/">>
       /\ input_path = <<"/", "x", "/", "a", ".", "b", ".", "flac">>
       /\ workers[w].command[Len(workers[w].command)]
             = <<"/", "a", ".", "b", ".", format_combo>>

\* The positions of step in the last call's trace.
TraceAt(step) == {i \in 1..Len(last_call.trace) : last_call.trace[i] = step}

\* The last call ran the locator on the bundled-installer platform, the user
\* confirmed, the installer was started, and the locator probed again.
InstallerConfirmed ==
    /\ last_call.fn \in {"start_convert", "ensure_ffmpeg"}
    /\ platform = "win"
    /\ TraceAt("question:FFmpeg not found:Yes") # {}
    /\ \E s \in TraceAt("spawn:installer") :
          \E p \in TraceAt("probe") : p > s

\* C11 as claimed: after the user confirms, the installer is launched fire
\* and forget: the locator probes again without having waited for the
\* installer process to finish.
C11_FireAndForget ==
    InstallerConfirmed =>
       \E s \in TraceAt("spawn:installer") :
          \E p \in TraceAt("probe") :
             /\ p > s
             /\ \A x \in TraceAt("exit:installer") : ~(s < x /\ x < p)

\* C11: after the user confirms, the locator starts the installer in a new
\* console and waits for that process to exit; only then does it probe
\* again, so no probe is made while the installer process is running.
C11_WaitsThenReprobes ==
    InstallerConfirmed =>
       \A s \in TraceAt("spawn:installer") :
          /\ s + 2 <= Len(last_call.trace)
          /\ last_call.trace[s + 1] = "exit:installer"
          /\ last_call.trace[s + 2] = "probe"
          /\ \A p \in TraceAt("probe") :
                p > s => \E x \in TraceAt("exit:installer") : s < x /\ x < p

\* C11 witness: the user confirmed, the installer ran, and the second probe
\* found the binary on the search path.
C11_Witness ==
    /\ InstallerConfirmed
    /\ last_call.fn = "ensure_ffmpeg"
    /\ last_call.parent = "self"
    /\ last_call.ret = WhichFfmpeg
    /\ Cardinality(TraceAt("probe")) = 2

====
